---- MODULE Spec2Model ----
(***************************************************************************)
(* A model of app.py, the Streamlit "LinkedIn Service Proposal Assistant": *)
(* the sqlite table `requests` with its three functions (load_data,        *)
(* add_request, update_request), the two Gemini helpers (generate_proposal *)
(* and enhance_proposal) and the handlers of the page's widgets.           *)
(*                                                                         *)
(* Spec      the page as the script builds it, used by two browser         *)
(*           sessions that share the database file.                        *)
(* SpecUnit  the functions and handler bodies applied directly to inputs   *)
(*           drawn from bounded sets (ids that match no row, an empty      *)
(*           service, the body of the Generate button).                    *)
(*                                                                         *)
(* Text that passes through str.strip() is a sequence of characters, so    *)
(* that stripping is computed; the other text fields are plain strings     *)
(* and "" is the empty string.                                             *)
(***************************************************************************)
EXTENDS Integers, Sequences, FiniteSets, TLC

VARIABLES
    requests,            \* the rows of table `requests`, in rowid order
    sqlite_sequence,     \* the AUTOINCREMENT counter of the table
    google_api_key,      \* st.secrets["GOOGLE_API_KEY"], read once
    ss_requests_df,      \* st.session_state.requests_df, per session
    generated_proposal,  \* st.session_state.generated_proposal, per session
    proposal_editor,     \* the text in the "proposal_editor" text area
    requests_df,         \* the table the session's last script run loaded
    steps,               \* number of script runs / calls made so far
    last                 \* what the last script run or call did

vars == <<requests, sqlite_sequence, google_api_key, ss_requests_df,
          generated_proposal, proposal_editor, requests_df, steps, last>>

-----------------------------------------------------------------------------
(* Bounds *)

MaxRows == 2      \* rows the table may hold
MaxSteps == 2     \* script runs / calls in one behaviour

Sessions == {"s1", "s2"}

\* texts the endpoint answers, before response.text.strip()
RemoteTexts == {<<" ">>, <<"D">>, <<" ", "D", " ">>}

\* texts the user types in the proposal editor
TypedTexts == {<<>>, <<"D", "2">>}

NameInputs == {"", "Bob"}
HeadlineInputs == {"", "Engineer"}
DetailsInputs == {"", "prep for FAANG onsite"}

-----------------------------------------------------------------------------
(* Program constants *)

MY_SERVICES == {"Resume Writing", "Resume Review", "Interview Preparation",
                "Career Development Coaching", "Training"}

\* the services the modelled user picks in the selectbox
ServiceInputs == {"Interview Preparation"}

StatusOptions == <<"Pending", "Contacted", "Follow-up", "Closed">>

StatusIndex(st) == CHOOSE i \in 1..Len(StatusOptions) : StatusOptions[i] = st

\* the columns of the data frame that SELECT * FROM requests yields
DbColumns == {"id", "client_name", "service_needed", "client_headline",
              "project_details", "status", "submitted_proposal"}

-----------------------------------------------------------------------------
(* Python helpers *)

\* str.strip(): drop leading and trailing whitespace
RECURSIVE LStrip(_)
LStrip(t) == IF t # <<>> /\ Head(t) = " " THEN LStrip(Tail(t)) ELSE t

RECURSIVE RStrip(_)
RStrip(t) ==
    IF t # <<>> /\ t[Len(t)] = " " THEN RStrip(SubSeq(t, 1, Len(t) - 1)) ELSE t

Strip(t) == RStrip(LStrip(t))

\* truth value of a str used as a condition (a plain string field)
Truthy(x) == x # ""

\* truth value of a text held as a sequence of characters
TruthyText(t) == t # <<>>

\* an Optional value: <<>> is None, <<v>> is the value v
None == <<>>
Some(v) == <<v>>

-----------------------------------------------------------------------------
(* The request store *)

Row(id, name, service, headline, details, status, proposal) ==
    [id |-> id, client_name |-> name, service_needed |-> service,
     client_headline |-> headline, project_details |-> details,
     status |-> status, submitted_proposal |-> proposal]

Ids(table) == {table[i].id : i \in DOMAIN table}

MaxId(table) ==
    IF table = <<>> THEN 0
    ELSE CHOOSE m \in Ids(table) : \A k \in Ids(table) : k <= m

\* INTEGER PRIMARY KEY AUTOINCREMENT: one more than the largest rowid ever used
NextId(table, seq) == (IF seq > MaxId(table) THEN seq ELSE MaxId(table)) + 1

load_data(table) == table

add_request_DropsHeadline(table, seq, name, service, headline, details) ==
    Append(table, Row(NextId(table, seq), name, service, "", details,
                      "Pending", <<>>))

add_request(table, seq, name, service, headline, details) ==
    Append(table, Row(NextId(table, seq), name, service, headline, details,
                      "Pending", <<>>))

update_request_NoWhere(table, record_id, name, service, headline, details, status, proposal) ==
    [i \in DOMAIN table |->
        Row(table[i].id, name, service, headline, details, status, proposal)]

update_request_OmitsName(table, record_id, name, service, headline, details, status, proposal) ==
    [i \in DOMAIN table |->
        IF table[i].id = record_id
        THEN Row(table[i].id, table[i].client_name, service, headline,
                 details, status, proposal)
        ELSE table[i]]

update_request_StatusForAll(table, record_id, name, service, headline, details, status, proposal) ==
    [i \in DOMAIN table |->
        IF table[i].id = record_id
        THEN Row(table[i].id, name, service, headline, details, status,
                 proposal)
        ELSE [table[i] EXCEPT !.status = status]]

update_request_KeepsHeadline(table, record_id, name, service, headline, details, status, proposal) ==
    [i \in DOMAIN table |->
        IF table[i].id = record_id
        THEN Row(table[i].id, name, service, table[i].client_headline,
                 details, status, proposal)
        ELSE table[i]]

update_request(table, record_id, name, service, headline, details, status, proposal) ==
    [i \in DOMAIN table |->
        IF table[i].id = record_id
        THEN Row(table[i].id, name, service, headline, details, status,
                 proposal)
        ELSE table[i]]

\* the row with the given id, as an Optional
RowOf(table, id) ==
    IF id \in Ids(table)
    THEN Some(table[CHOOSE i \in DOMAIN table : table[i].id = id])
    ELSE None

-----------------------------------------------------------------------------
(* The Gemini helpers.  `remote` is what model.generate_content(prompt)      *)
(* followed by response.text does: None when either raises, Some(t) when the *)
(* endpoint answers the text t.                                             *)

RemoteOutcomes == {None} \cup {Some(t) : t \in RemoteTexts}

Outcome(ret, calls, signal, failed) ==
    [ret |-> ret, calls |-> calls, signal |-> signal, failed |-> failed]

generate_proposal(key, remote) ==
    IF ~Truthy(key) THEN Outcome(None, 0, "error", TRUE)
    ELSE IF remote = None THEN Outcome(None, 1, "error", TRUE)
    ELSE Outcome(Some(Strip(remote[1])), 1, "info", FALSE)

enhance_proposal_ReturnsEmpty(key, proposal_text, remote) ==
    IF ~Truthy(key) THEN Outcome(Some(proposal_text), 0, "error", TRUE)
    ELSE IF remote = None THEN Outcome(Some(<<>>), 1, "error", TRUE)
    ELSE Outcome(Some(Strip(remote[1])), 1, "info", FALSE)

enhance_proposal(key, proposal_text, remote) ==
    IF ~Truthy(key) THEN Outcome(Some(proposal_text), 0, "error", TRUE)
    ELSE IF remote = None THEN Outcome(Some(proposal_text), 1, "error", TRUE)
    ELSE Outcome(Some(Strip(remote[1])), 1, "info", FALSE)

-----------------------------------------------------------------------------
(* The record of the last script run or call *)

Last(op, sess, signal, ret, calls, failed, id, args, before, stale) ==
    [op |-> op, sess |-> sess, signal |-> signal, ret |-> ret, calls |-> calls,
     failed |-> failed, id |-> id, args |-> args, before |-> before,
     stale |-> stale]

Plain(op, sess, signal) ==
    Last(op, sess, signal, None, 0, FALSE, 0, None, None, FALSE)

-----------------------------------------------------------------------------
(* Initial state: the database file outlives the process, so the table is   *)
(* empty or holds a request logged earlier; each session has run the script *)
(* once.                                                                    *)

InitialTables ==
    {<<>>,
     <<Row(1, "Bob", "Interview Preparation", "", "prep for FAANG onsite",
           "Pending", <<>>)>>,
     <<Row(1, "Eve", "Resume Review", "Analyst", "second opinion",
           "Follow-up", <<"D">>),
       Row(2, "Bob", "Interview Preparation", "", "prep for FAANG onsite",
           "Pending", <<>>)>>}

Init ==
    /\ requests \in InitialTables
    /\ sqlite_sequence = Len(requests)
    /\ google_api_key \in {"", "key"}
    /\ ss_requests_df = [s \in Sessions |-> <<>>]
    /\ generated_proposal = [s \in Sessions |-> <<>>]
    /\ proposal_editor = [s \in Sessions |-> <<>>]
    /\ requests_df = [s \in Sessions |-> load_data(requests)]
    /\ steps = 0
    /\ last = Plain("init", "s1", "none")

-----------------------------------------------------------------------------
(* The page *)

\* every script run starts with requests_df = load_data(); a handler that
\* writes ends in st.rerun(), which loads again
Reload(s) == requests_df' = [requests_df EXCEPT ![s] = load_data(requests')]

Tick == steps < MaxSteps /\ steps' = steps + 1

SessionUnchanged == UNCHANGED <<ss_requests_df, generated_proposal,
                                proposal_editor>>

StoreUnchanged == UNCHANGED <<requests, sqlite_sequence>>

\* a script run that no button or form started (a selectbox change)
Rerun(s) ==
    /\ Tick
    /\ StoreUnchanged
    /\ SessionUnchanged
    /\ UNCHANGED google_api_key
    /\ Reload(s)
    /\ last' = Plain("rerun", s, "none")

RequiredFilled_Any(client_name, service_needed, project_details) ==
    Truthy(client_name) \/ Truthy(service_needed) \/ Truthy(project_details)

\* all([client_name, service_needed, project_details])
RequiredFilled(client_name, service_needed, project_details) ==
    Truthy(client_name) /\ Truthy(service_needed) /\ Truthy(project_details)

\* "Add Request to Database"
SubmitNewRequest(s, client_name, service_needed, client_headline, project_details) ==
    /\ Tick
    /\ IF ~RequiredFilled(client_name, service_needed, project_details)
       THEN /\ StoreUnchanged
            /\ last' = Last("add", s, "warning", None, 0, TRUE, 0,
                            Some(Row(0, client_name, service_needed,
                                     client_headline, project_details,
                                     "", <<>>)),
                            None, FALSE)
       ELSE /\ Len(requests) < MaxRows
            /\ requests' = add_request(requests, sqlite_sequence, client_name,
                                       service_needed, client_headline,
                                       project_details)
            /\ sqlite_sequence' = NextId(requests, sqlite_sequence)
            /\ last' = Last("add", s, "success", None, 0, FALSE, 0,
                            Some(Row(0, client_name, service_needed,
                                     client_headline, project_details,
                                     "", <<>>)),
                            None, FALSE)
    /\ SessionUnchanged
    /\ UNCHANGED google_api_key
    /\ Reload(s)

\* rows with status == 'Pending'
Pending(table) == SelectSeq(table, LAMBDA r : r.status = "Pending")

\* how far the "Step 2" block gets in a run of the script
Col2(s) ==
    IF ss_requests_df[s] # <<>>
    THEN IF Pending(requests_df[s]) # <<>>
         THEN IF "Client Name" \in DbColumns /\ "display" \in DbColumns
              THEN "selected"
              ELSE "KeyError"
         ELSE "no_pending"
    ELSE "get_started"

\* 'selected_client_name' in locals()
SelectedInLocals(s) == Col2(s) = "selected"

selected_row(s) == Pending(requests_df[s])[1]

TypeProposal_StoresDraft(s, text) ==
    /\ Tick
    /\ Col2(s) # "KeyError"
    /\ text # proposal_editor[s]
    /\ proposal_editor' = [proposal_editor EXCEPT ![s] = text]
    /\ generated_proposal' = [generated_proposal EXCEPT ![s] = text]
    /\ StoreUnchanged
    /\ UNCHANGED <<google_api_key, ss_requests_df>>
    /\ Reload(s)
    /\ last' = Plain("type", s, "none")

\* the user types in the "Your Generated Proposal" text area
TypeProposal(s, text) ==
    /\ Tick
    /\ Col2(s) # "KeyError"
    /\ text # proposal_editor[s]
    /\ proposal_editor' = [proposal_editor EXCEPT ![s] = text]
    /\ StoreUnchanged
    /\ UNCHANGED <<google_api_key, ss_requests_df, generated_proposal>>
    /\ Reload(s)
    /\ last' = Plain("type", s, "none")

\* "Enhance with LLM"
EnhanceClick(s, remote) ==
    /\ Tick
    /\ Col2(s) # "KeyError"
    /\ LET r == enhance_proposal(google_api_key, proposal_editor[s], remote)
       IN /\ generated_proposal' = [generated_proposal EXCEPT ![s] = r.ret[1]]
          /\ proposal_editor' = [proposal_editor EXCEPT ![s] = r.ret[1]]
          /\ last' = Last("enhance", s, r.signal, r.ret, r.calls, r.failed,
                          0, None, None, FALSE)
    /\ StoreUnchanged
    /\ UNCHANGED <<google_api_key, ss_requests_df>>
    /\ Reload(s)

\* "Mark as 'Contacted'"
MarkContactedClick(s) ==
    /\ Tick
    /\ Col2(s) # "KeyError"
    /\ IF SelectedInLocals(s)
       THEN LET row == selected_row(s) IN
            /\ requests' = update_request(requests, row.id, row.client_name,
                                          row.service_needed,
                                          row.client_headline,
                                          row.project_details, "Contacted",
                                          proposal_editor[s])
            /\ generated_proposal' = [generated_proposal EXCEPT ![s] = <<>>]
            /\ proposal_editor' = [proposal_editor EXCEPT ![s] = <<>>]
            /\ last' = Last("mark_contacted", s, "success", None, 0, FALSE,
                            row.id,
                            Some(Row(row.id, row.client_name,
                                     row.service_needed, row.client_headline,
                                     row.project_details, "Contacted",
                                     proposal_editor[s])),
                            RowOf(requests, row.id), FALSE)
       ELSE /\ UNCHANGED <<requests, generated_proposal, proposal_editor>>
            /\ last' = Last("mark_contacted", s, "warning", None, 0, FALSE, 0,
                            None, None, FALSE)
    /\ UNCHANGED <<sqlite_sequence, google_api_key, ss_requests_df>>
    /\ Reload(s)

\* a value the form passes although the table no longer holds it
Stale(shown, stored, passed) ==
    \E f \in DbColumns : passed[f] = shown[f] /\ stored[f] # shown[f]

\* "Save Changes" of edit_form: the form was filled from the row the page
\* showed, and the user changed some of its fields
SaveChanges(s, record_to_edit_id, edit_name, edit_service, edit_headline, edit_details, edit_status, edit_proposal) ==
    /\ Tick
    /\ Col2(s) # "KeyError"
    /\ record_to_edit_id \in Ids(requests_df[s])
    /\ load_data(requests) # <<>>
    /\ record_to_edit_id # 0
    /\ requests' = update_request(requests, record_to_edit_id, edit_name,
                                  edit_service, edit_headline, edit_details,
                                  edit_status, edit_proposal)
    /\ LET passed == Row(record_to_edit_id, edit_name, edit_service,
                         edit_headline, edit_details, edit_status,
                         edit_proposal)
           shown == RowOf(requests_df[s], record_to_edit_id)[1]
           stored == RowOf(requests, record_to_edit_id)
       IN last' = Last("save", s, "success", None, 0, FALSE,
                       record_to_edit_id, Some(passed), stored,
                       stored # None /\ Stale(shown, stored[1], passed))
    /\ SessionUnchanged
    /\ UNCHANGED <<sqlite_sequence, google_api_key>>
    /\ Reload(s)

\* what the user may leave in a field of edit_form: the value shown, or a
\* new one
EditNames == {"Ada"}
EditTexts == {<<"D">>}

Next ==
    \E s \in Sessions :
        \/ Rerun(s)
        \/ \E n \in NameInputs, sv \in ServiceInputs, h \in HeadlineInputs,
              d \in DetailsInputs : SubmitNewRequest(s, n, sv, h, d)
        \/ \E t \in TypedTexts : TypeProposal(s, t)
        \/ \E r \in RemoteOutcomes : EnhanceClick(s, r)
        \/ MarkContactedClick(s)
        \/ \E id \in Ids(requests_df[s]) :
              LET shown == RowOf(requests_df[s], id)[1] IN
              \E n \in {shown.client_name} \cup EditNames,
                 st \in {StatusOptions[i] : i \in DOMAIN StatusOptions},
                 p \in {shown.submitted_proposal} \cup EditTexts :
                 SaveChanges(s, id, n, shown.service_needed,
                             shown.client_headline, shown.project_details,
                             st, p)

Spec == Init /\ [][Next]_vars

-----------------------------------------------------------------------------
(* The functions and handler bodies applied directly *)

\* update_request called with any id and any values
UnitUpdateRequest(record_id, name, service, headline, details, status, proposal) ==
    /\ Tick
    /\ requests' = update_request(requests, record_id, name, service, headline,
                                  details, status, proposal)
    /\ last' = Last("update_request", "s1", "none", None, 0, FALSE, record_id,
                    Some(Row(record_id, name, service, headline, details,
                             status, proposal)),
                    RowOf(requests, record_id), FALSE)
    /\ SessionUnchanged
    /\ UNCHANGED <<sqlite_sequence, google_api_key, requests_df>>

GenerateDraft_Always(draft, proposal) ==
    IF proposal # None THEN proposal[1] ELSE <<>>

\* if proposal: st.session_state.generated_proposal = proposal
GenerateDraft(draft, proposal) ==
    IF proposal # None /\ TruthyText(proposal[1]) THEN proposal[1] ELSE draft

\* the body of the "Generate Proposal for ..." button, for a pending row
UnitGenerate(s, remote) ==
    /\ Tick
    /\ Pending(requests) # <<>>
    /\ LET r == generate_proposal(google_api_key, remote)
           draft == GenerateDraft(generated_proposal[s], r.ret)
       IN /\ generated_proposal' = [generated_proposal EXCEPT ![s] = draft]
          /\ proposal_editor' =
                 [proposal_editor EXCEPT
                     ![s] = IF draft # generated_proposal[s] THEN draft ELSE @]
          /\ last' = Last("generate", s, r.signal, r.ret, r.calls, r.failed,
                          0, None, None, FALSE)
    /\ StoreUnchanged
    /\ UNCHANGED <<google_api_key, ss_requests_df>>
    /\ Reload(s)

UnitIds == 1..(MaxRows + 1)
UnitTexts == {<<>>, <<"D">>}

NextUnit ==
    \/ \E n \in NameInputs, sv \in ServiceInputs \cup {""},
          h \in HeadlineInputs, d \in DetailsInputs :
          SubmitNewRequest("s1", n, sv, h, d)
    \/ \E id \in UnitIds, h \in HeadlineInputs,
          st \in {StatusOptions[i] : i \in DOMAIN StatusOptions},
          p \in UnitTexts :
          UnitUpdateRequest(id, "Ada", "Training", h, "call on Friday", st, p)
    \/ \E r \in RemoteOutcomes : UnitGenerate("s1", r)
    \/ \E r \in RemoteOutcomes : EnhanceClick("s1", r)
    \/ \E t \in TypedTexts : TypeProposal("s1", t)

SpecUnit == Init /\ [][NextUnit]_vars

-----------------------------------------------------------------------------
(* Properties *)


\* C1: after the user has a pending request on the page, has text T in the
\* proposal editor and presses "Mark as 'Contacted'", the record read back
\* has status Contacted and submitted proposal T, its other fields unchanged.
C1_FinalizeWritesRecord ==
    [][\A s \in Sessions :
          (last'.op = "mark_contacted" /\ last'.sess = s
              /\ Pending(requests) # <<>>)
          => LET row == Pending(requests)[1] IN
             RowOf(load_data(requests'), row.id) =
                 Some([row EXCEPT !.status = "Contacted",
                                  !.submitted_proposal = proposal_editor[s]])
      ]_vars

\* C2 (as claimed): no step moves a stored record's status to an earlier
\* value in the order Pending < Contacted < Follow-up < Closed.
C2_StatusNeverMovesBack ==
    [][\A i \in DOMAIN requests :
          StatusIndex(requests'[i].status) >= StatusIndex(requests[i].status)
      ]_vars

\* C2 (amended): a record starts at Pending, and a stored status changes only
\* in an update step (edit-form save or the finalize write), for the record
\* that step names and to the status that step passes.
C2_StatusChangesOnlyByUpdate ==
    [][/\ \A i \in DOMAIN requests :
             requests'[i].status # requests[i].status
             => /\ last'.op \in {"save", "mark_contacted"}
                /\ last'.id = requests[i].id
                /\ requests'[i].status = last'.args[1].status
       /\ \A i \in DOMAIN requests' \ DOMAIN requests :
             requests'[i].status = "Pending"
      ]_vars

\* a save has moved a record's status to an earlier value
C2_Witness ==
    /\ last.op = "save"
    /\ last.before # None
    /\ StatusIndex(last.args[1].status) < StatusIndex(last.before[1].status)
    /\ RowOf(requests, last.id)[1].status = last.args[1].status

C4_FailedEnhanceKeepsDraft ==
    [][\A s \in Sessions :
          (last'.op = "enhance" /\ last'.sess = s /\ last'.failed)
          => /\ last'.ret = Some(proposal_editor[s])
             /\ generated_proposal'[s] = proposal_editor[s]
             /\ proposal_editor'[s] = proposal_editor[s]
      ]_vars

\* an Enhance whose remote call raised, on a non-empty edited text
C4_Witness ==
    /\ last.op = "enhance"
    /\ last.failed
    /\ last.calls = 1
    /\ generated_proposal[last.sess] # <<>>

\* C5: after a create with non-empty name, service and details the loaded
\* table has exactly one more row; the new row carries the inputs, status
\* Pending, an empty submitted proposal and a fresh id; the rows that existed
\* are unchanged.
C5_CreateAddsOneRow ==
    [][\A s \in Sessions :
          (last'.op = "add" /\ last'.sess = s
              /\ Truthy(last'.args[1].client_name)
              /\ Truthy(last'.args[1].service_needed)
              /\ Truthy(last'.args[1].project_details))
          => LET before == load_data(requests)
                 after == requests_df'[s]
                 in == last'.args[1]
                 new == after[Len(after)]
             IN /\ Len(after) = Len(before) + 1
                /\ SubSeq(after, 1, Len(before)) = before
                /\ new.id \notin Ids(before)
                /\ new = Row(new.id, in.client_name, in.service_needed,
                             in.client_headline, in.project_details,
                             "Pending", <<>>)
      ]_vars

\* a request with a headline was added to a table that already held a row
C5_Witness ==
    /\ last.op = "add"
    /\ last.signal = "success"
    /\ last.args[1].client_headline # ""
    /\ Len(requests) >= 2
    /\ requests[Len(requests)].client_headline = last.args[1].client_headline

\* C6: a create with an empty name, service or details is rejected with a
\* warning and leaves the table as it was; an empty headline alone does not
\* cause rejection.
C6_EmptyRequiredFieldRejected ==
    [][last'.op = "add"
          => LET in == last'.args[1] IN
             /\ (in.client_name = "" \/ in.service_needed = ""
                    \/ in.project_details = "")
                => (last'.signal = "warning"
                    /\ load_data(requests') = load_data(requests))
             /\ (in.client_name # "" /\ in.service_needed # ""
                    /\ in.project_details # "")
                => (last'.signal = "success"
                    /\ Len(requests') = Len(requests) + 1)
      ]_vars

\* a create whose only empty required field is the service was rejected
C6_Witness ==
    /\ last.op = "add"
    /\ last.signal = "warning"
    /\ last.args[1].service_needed = ""
    /\ last.args[1].client_name # ""
    /\ last.args[1].project_details # ""

\* C7: update_request on an existing id followed by a read of that id returns
\* exactly the six values passed under the same id, and every other row is
\* unchanged.
C7_FullReplace ==
    [][(last'.op = "update_request" /\ last'.before # None)
          => /\ RowOf(load_data(requests'), last'.id) = last'.args
             /\ Len(requests') = Len(requests)
             /\ \A i \in DOMAIN requests :
                   requests[i].id # last'.id => requests'[i] = requests[i]
      ]_vars

\* an update that changed all six values of a row, beside another row
C7_Witness ==
    /\ last.op = "update_request"
    /\ last.before # None
    /\ \A f \in DbColumns \ {"id"} : last.before[1][f] # last.args[1][f]
    /\ Len(requests) >= 2

\* C8: a generate that fails (no credential, or the remote call raises)
\* returns no text, makes at most one remote call, and leaves the session's
\* draft, the editor and every stored record unchanged.
C8_FailedGenerateChangesNothing ==
    [][\A s \in Sessions :
          (last'.op = "generate" /\ last'.sess = s /\ last'.failed)
          => /\ last'.ret = None
             /\ last'.calls <= 1
             /\ generated_proposal'[s] = generated_proposal[s]
             /\ proposal_editor'[s] = proposal_editor[s]
             /\ load_data(requests') = load_data(requests)
      ]_vars

\* a generate whose remote call raised while the session held a draft
C8_Witness ==
    /\ last.op = "generate"
    /\ last.failed
    /\ last.calls = 1
    /\ generated_proposal[last.sess] # <<>>

\* C9 (as claimed): a session leaves NoDraft (empty draft) for Drafted only by
\* a successful generate, never by refine.
C9_DraftedOnlyByGenerate ==
    [][\A s \in Sessions :
          (generated_proposal[s] = <<>> /\ generated_proposal'[s] # <<>>)
          => last'.op = "generate"
      ]_vars

\* C9 (amended): the session's draft changes only in the run of a Generate,
\* Enhance or Mark-as-Contacted button of that session; Enhance sets it to
\* what enhance_proposal returns for the edited text, whatever the draft was.
C9_DraftChangesOnlyInButtonRuns ==
    [][\A s \in Sessions :
          /\ generated_proposal'[s] # generated_proposal[s]
             => /\ last'.sess = s
                /\ last'.op \in {"generate", "enhance", "mark_contacted"}
          /\ (last'.op = "enhance" /\ last'.sess = s)
             => generated_proposal'[s] = last'.ret[1]
      ]_vars

\* the first action of a behaviour was an Enhance that left a draft
C9_Witness ==
    /\ steps = 1
    /\ last.op = "enhance"
    /\ ~last.failed
    /\ generated_proposal[last.sess] # <<>>

====
